---- MODULE Spec2Model ----
(***************************************************************************)
(* Model of src/src/PDFInserter.jsx: the React component                   *)
(* PDFInserterProtected and its asynchronous handler processAll, which     *)
(* merges a copy of page 0 of the insert PDF after every page of each      *)
(* selected main PDF.                                                      *)
(*                                                                         *)
(* The component state (useState hooks) is mainFiles, insertFile, loading, *)
(* status and progress.  A call of processAll is a record of runs: its     *)
(* local variables, the files its closure captured, and its position (pc)  *)
(* at one of its awaits.  Every action runs one handler, or one stretch of *)
(* processAll from one await to the next, as JavaScript's event loop does. *)
(*                                                                         *)
(* The login gate (authenticated, handleLogin, handleLogout) only selects  *)
(* which markup is rendered; it reads and writes none of the state below   *)
(* and is left out.                                                        *)
(*                                                                         *)
(* pdf-lib is modelled by what it does: PDFDocument.load throws on bytes   *)
(* that are no PDF, copyPages throws on an index the source does not have  *)
(* and may throw on content it cannot copy, copyPages returns new pages    *)
(* owned by the destination, setSize changes only the page it is called    *)
(* on, and save() (addDefaultPage defaults to true) adds one blank page to *)
(* a document that has none before it serializes it.                       *)
(***************************************************************************)
EXTENDS Integers, Sequences, FiniteSets, TLC

\* mainFiles, insertFile, loading, status, progress: the useState hooks.
\* fetchDone: whether the effect loadDefaultInsert has had its answer.
\* runs: the calls of processAll, each with its locals and its position.
\* chunkSize: the CHUNK_SIZE of the loop over the chunks.
\* disk: the files the user can select or drop.
VARIABLES mainFiles, insertFile, loading, status, progress,
          fetchDone, runs, chunkSize, disk

vars == <<mainFiles, insertFile, loading, status, progress,
          fetchDone, runs, chunkSize, disk>>

\* ------------------------------------------------------------------ bounds

\* Longest list of main files the user selects.
MaxFiles == 2
\* Most calls of processAll alive at once that the model follows.
MaxRuns == 2
\* Page counts 0..MaxPages and batch sizes 1..MaxChunk of SpecBatch.
MaxPages == 3
MaxChunk == 4

\* ------------------------------------------------------- program constants

CHUNK_SIZE == 50

\* useState(null): no File.
NULL == [name |-> "null", src |-> "none", ok |-> FALSE, n |-> 0]

Min(a, b) == IF a < b THEN a ELSE b

\* ------------------------------------------------------------------- files

\* Page sizes of the main documents; they differ from page to page.
SizeOf(i) ==
  CASE i % 3 = 0 -> <<600, 800>>
    [] i % 3 = 1 -> <<300, 400>>
    [] OTHER     -> <<1200, 800>>

\* The size of the pages of insert.pdf; no main page has it.
InsertSizeOf(i) == <<500 + i, 700 + i>>

\* A File: its name and what its bytes hold: whether they are a PDF, and
\* of how many pages.
MainFile(name, ok, n) == [name |-> name, src |-> "main", ok |-> ok, n |-> n]

InsertFileOf(ok, n) == [name |-> "insert.pdf", src |-> "insert", ok |-> ok, n |-> n]

\* PDFDocument.load(await file.arrayBuffer()), for bytes that are a PDF: the
\* pages of the document (page indexes start at 0), each with the page of
\* the file it shows and its declared size.
Load(file) ==
  [k \in 1..file.n |->
     LET size == IF file.src = "insert" THEN InsertSizeOf(k - 1) ELSE SizeOf(k - 1)
     IN [src |-> file.src, doc |-> file.name, index |-> k - 1,
         width |-> size[1], height |-> size[2]]]

\* What fetch("/insert.pdf") can deliver: a PDF of 0, 1 or 2 pages, or bytes
\* that are no PDF (a development server answers 200 with its index page).
InsertFiles ==
  {InsertFileOf(TRUE, n) : n \in 0..2} \cup {InsertFileOf(FALSE, 0)}

\* The page pdf-lib's save() adds to a document without pages.
BlankPage ==
  [src |-> "blank", doc |-> "", index |-> 0, width |-> 595, height |-> 842]

\* The files of the user's disk under Spec: documents of one batch and of
\* two batches (more than CHUNK_SIZE pages), and a file that is no PDF.
SpecDisk ==
  {MainFile("a.pdf", TRUE, 3), MainFile("big.pdf", TRUE, CHUNK_SIZE + 1),
   MainFile("bad.pdf", FALSE, 0)}

\* The user's disk under SpecBatch holds one document, of any page count.
BatchDisks == {{MainFile("p.pdf", TRUE, n)} : n \in 0..MaxPages}

\* The lists of files a selection or a drop can deliver: up to n different
\* files of S, in any order.
FileLists(S, n) ==
  {fs \in UNION {[1..k -> S] : k \in 0..n} :
     \A j, k \in DOMAIN fs : j # k => fs[j] # fs[k]}

\* ------------------------------------------------------------- UI state

\* A value of the status hook: the message's kind and what it interpolates.
Status(kind, name, a, b, c) == [kind |-> kind, name |-> name, a |-> a, b |-> b, c |-> c]
Msg(kind) == Status(kind, "", 0, 0, 0)

\* The three hooks processAll writes.
UI == [status |-> status, progress |-> progress, loading |-> loading]

\* A button that is never disabled.
ButtonAlways == TRUE

\* <button onClick={processAll} disabled={loading}>
ButtonEnabled == ~loading

\* The local variables of a call of processAll at its first await, with what
\* the call has done so far: the documents it loaded (attempted), the
\* downloads it triggered (delivered), the values it gave setProgress
\* (progressLog), its per-batch progress updates (events), whether it
\* failed, and whether it failed in a copy with pages in its output (partial).
NewRun ==
  [pc |-> "loadInsert", mainFiles |-> mainFiles, insertFile |-> insertFile,
   insertPdf |-> <<>>, idx |-> 0, mainPdf |-> <<>>, outputPdf |-> <<>>,
   totalPages |-> 0, start |-> 0, end |-> 0, mainPages |-> <<>>, i |-> 0,
   failed |-> FALSE, partial |-> FALSE, attempted |-> <<>>, delivered |-> <<>>,
   progressLog |-> <<[idx |-> 0, value |-> 0]>>, events |-> <<>>]

\* processAll returns: its documents and loop variables are gone; what the
\* call was given and what it did remain on record.
Return(run) ==
  [run EXCEPT !.pc = "done", !.insertPdf = <<>>, !.mainPdf = <<>>,
              !.outputPdf = <<>>, !.totalPages = 0, !.start = 0, !.end = 0,
              !.mainPages = <<>>, !.i = 0]

Active(run) == run.pc # "done"

\* ------------------------------------------------- pieces of processAll

\* The share of the pages still to do.
ProgressRemaining(end, totalPages) ==
  100 - (200 * end + totalPages) \div (2 * totalPages)

\* Math.min(((end / totalPages) * 100).toFixed(0), 100): toFixed rounds to
\* the nearest integer, a half upwards.
ProgressPercent(end, totalPages) ==
  Min((200 * end + totalPages) \div (2 * totalPages), 100)

\* Math.max where Math.min is meant.
ChunkEndMax(start, totalPages, chunk) ==
  IF start + chunk > totalPages THEN start + chunk ELSE totalPages

\* Math.min(start + CHUNK_SIZE, totalPages)
ChunkEnd(start, totalPages, chunk) == Min(start + chunk, totalPages)

\* A loop that steps one page too far.
NextStartSkip(start, chunk) == start + chunk + 1

\* start += CHUNK_SIZE
NextStart(start, chunk) == start + chunk

\* outputPdf.copyPages(src, indexes): new pages with the content and the
\* size of the pages of src at indexes (0-based); they are not yet added.
CopyPages(src, indexes) == [k \in 1..Len(indexes) |-> src[indexes[k] + 1]]

\* Whether copyPages finds every index in src.
IndexesValid(src, indexes) ==
  \A k \in 1..Len(indexes) : indexes[k] >= 0 /\ indexes[k] < Len(src)

\* A map callback that forgets its index.
PageIndexesStuck(start, end) == [k \in 1..(end - start) |-> start]

\* Array.from({ length: end - start }, (_, i) => start + i)
PageIndexes(start, end) == [k \in 1..(end - start) |-> start + k - 1]

\* A copy that keeps the filler's own size.
SetSizeNone(insertPage, mainPage) == insertPage

\* const { width, height } = mainPage.getSize(); insertPage.setSize(width, height)
SetSize(insertPage, mainPage) ==
  [insertPage EXCEPT !.width = mainPage.width, !.height = mainPage.height]

\* `merged-${mainFile.name}`
MergedName(name) == "merged-" \o name

\* outputPdf.save(): the pages of the bytes it returns.
Save(pages) == IF Len(pages) = 0 THEN <<BlankPage>> ELSE pages

Result(run, ui) == [run |-> run, ui |-> ui]

\* A catch without the finally block.
CatchNoFinally(run, ui) ==
  Result([Return(run) EXCEPT !.failed = TRUE],
         [ui EXCEPT !.status = Msg("error")])

\* A catch that saves what was built so far.
CatchSaves(run, ui) ==
  Result([Return(run) EXCEPT !.failed = TRUE,
                     !.delivered = Append(@, [idx |-> run.idx,
                                              name |-> MergedName(run.mainFiles[run.idx + 1].name),
                                              pages |-> Save(run.outputPdf)])],
         [ui EXCEPT !.status = Msg("error"), !.loading = FALSE])

\* catch (err) { setStatus(error) } finally { setLoading(false) }
Catch(run, ui) ==
  Result([Return(run) EXCEPT !.failed = TRUE,
                             !.partial = run.pc \in {"copyMain", "copyInsert"}
                                          /\ run.outputPdf # <<>>],
         [ui EXCEPT !.status = Msg("error"), !.loading = FALSE])

\* After the loop over mainFiles: setProgress(100), setStatus(success), and
\* finally setLoading(false).
Finish(run, ui) ==
  Result([Return(run) EXCEPT
            !.progressLog = Append(@, [idx |-> run.idx, value |-> 100])],
         [ui EXCEPT !.progress = 100, !.status = Msg("success"), !.loading = FALSE])

\* for (let idx ...; idx < mainFiles.length; ...): the head of the loop over
\* the main files, up to await mainFile.arrayBuffer().
ForDocument(run, ui) ==
  IF run.idx < Len(run.mainFiles)
    THEN Result([run EXCEPT !.pc = "loadMain"],
                [ui EXCEPT !.status = Status("processing", run.mainFiles[run.idx + 1].name,
                                             run.idx + 1, Len(run.mainFiles), 0)])
    ELSE Finish(run, ui)

\* for (let start ...; start < totalPages; ...): the head of the loop over
\* the chunks, up to await outputPdf.copyPages(mainPdf, pageIndexes); after
\* the last chunk, up to await outputPdf.save().
ForChunk(run, ui) ==
  IF run.start < run.totalPages
    THEN Result([run EXCEPT !.pc = "copyMain",
                            !.end = ChunkEnd(run.start, run.totalPages, chunkSize)], ui)
    ELSE Result([run EXCEPT !.pc = "save"], ui)

\* for (let i ...; i < mainPages.length; ...): the head of the loop over the
\* pages of a chunk: addPage(mainPage), up to await copyPages(insertPdf, [0]);
\* after the last page, up to the await of the 30 ms timer.
ForPage(run, ui) ==
  IF run.i < Len(run.mainPages)
    THEN Result([run EXCEPT !.pc = "copyInsert",
                            !.outputPdf = Append(@, run.mainPages[run.i + 1])], ui)
    ELSE Result([run EXCEPT !.pc = "pause"], ui)

\* The component's hooks and the run after a stretch of processAll.
Apply(r, res) ==
  /\ runs' = [runs EXCEPT ![r] = res.run]
  /\ status' = res.ui.status
  /\ progress' = res.ui.progress
  /\ loading' = res.ui.loading
  /\ UNCHANGED <<mainFiles, insertFile, fetchDone, chunkSize, disk>>

\* ----------------------------------------------------------------- actions

\* useEffect: loadDefaultInsert, when fetch("/insert.pdf") answers.
loadDefaultInsert ==
  /\ ~fetchDone
  /\ fetchDone' = TRUE
  /\ \/ \E file \in InsertFiles :
          /\ insertFile' = file
          /\ UNCHANGED status
     \/ /\ status' = Msg("insertLoadFailed")
        /\ UNCHANGED insertFile
  /\ UNCHANGED <<mainFiles, loading, progress, runs, chunkSize, disk>>

\* onChange of the file input.
handleMainFilesChange ==
  \E files \in FileLists(disk, MaxFiles) :
    /\ mainFiles' = files
    /\ status' = Msg("")
    /\ progress' = 0
    /\ UNCHANGED <<insertFile, loading, fetchDone, runs, chunkSize, disk>>

\* onDrop of the drop zone.
onDrop ==
  \E files \in FileLists(disk, MaxFiles) :
    /\ mainFiles' = files
    /\ UNCHANGED <<insertFile, loading, status, progress, fetchDone, runs, chunkSize, disk>>

\* onClick of a file's remove button.
removeFile ==
  \E index \in 1..Len(mainFiles) :
    /\ mainFiles' = [k \in 1..(Len(mainFiles) - 1) |->
                       IF k < index THEN mainFiles[k] ELSE mainFiles[k + 1]]
    /\ UNCHANGED <<insertFile, loading, status, progress, fetchDone, runs, chunkSize, disk>>

\* A click of the button: processAll up to its first await.
processAll ==
  /\ ButtonEnabled
  /\ IF insertFile = NULL
       THEN /\ status' = Msg("insertMissing")
            /\ UNCHANGED <<loading, progress, runs>>
       ELSE IF Len(mainFiles) = 0
         THEN /\ status' = Msg("noInput")
              /\ UNCHANGED <<loading, progress, runs>>
         ELSE /\ Len(SelectSeq(runs, Active)) < MaxRuns
              /\ loading' = TRUE
              /\ progress' = 0
              /\ status' = Msg("preparing")
              /\ runs' = Append(SelectSeq(runs, Active), NewRun)
  /\ UNCHANGED <<mainFiles, insertFile, fetchDone, chunkSize, disk>>

\* await insertFile.arrayBuffer(); await PDFDocument.load(insertPdfBytes)
loadInsert ==
  \E r \in DOMAIN runs :
  /\ runs[r].pc = "loadInsert"
  /\ Apply(r, IF runs[r].insertFile.ok
                THEN ForDocument([runs[r] EXCEPT !.insertPdf = Load(runs[r].insertFile),
                                                 !.idx = 0], UI)
                ELSE Catch(runs[r], UI))

\* await mainFile.arrayBuffer(); await PDFDocument.load(mainPdfBytes);
\* PDFDocument.create(); getPageCount()
loadMain ==
  \E r \in DOMAIN runs :
  /\ runs[r].pc = "loadMain"
  /\ LET run == [runs[r] EXCEPT !.attempted = Append(@, runs[r].idx)]
         mainFile == run.mainFiles[run.idx + 1]
     IN Apply(r, IF mainFile.ok
                   THEN ForChunk([run EXCEPT !.mainPdf = Load(mainFile),
                                             !.outputPdf = <<>>,
                                             !.totalPages = Len(Load(mainFile)),
                                             !.start = 0], UI)
                   ELSE Catch(run, UI))

\* const mainPages = await outputPdf.copyPages(mainPdf, pageIndexes)
copyMain ==
  \E r \in DOMAIN runs :
  /\ runs[r].pc = "copyMain"
  /\ \E supported \in BOOLEAN :
       LET run == runs[r]
           pageIndexes == PageIndexes(run.start, run.end)
       IN Apply(r, IF supported /\ IndexesValid(run.mainPdf, pageIndexes)
                     THEN ForPage([run EXCEPT !.mainPages = CopyPages(run.mainPdf, pageIndexes),
                                              !.i = 0], UI)
                     ELSE Catch(run, UI))

\* const [insertPage] = await outputPdf.copyPages(insertPdf, [0]);
\* setSize; addPage(insertPage); i++
copyInsert ==
  \E r \in DOMAIN runs :
  /\ runs[r].pc = "copyInsert"
  /\ \E supported \in BOOLEAN :
       LET run == runs[r]
           mainPage == run.mainPages[run.i + 1]
       IN Apply(r, IF supported /\ IndexesValid(run.insertPdf, <<0>>)
                     THEN ForPage([run EXCEPT
                                     !.outputPdf = Append(@, SetSize(CopyPages(run.insertPdf, <<0>>)[1], mainPage)),
                                     !.i = run.i + 1], UI)
                     ELSE Catch(run, UI))

\* The timer of the pause fires: setProgress(progressPercent),
\* setStatus(merging), start += CHUNK_SIZE.
afterPause ==
  \E r \in DOMAIN runs :
  /\ runs[r].pc = "pause"
  /\ LET run == runs[r]
         progressPercent == ProgressPercent(run.end, run.totalPages)
     IN Apply(r, ForChunk([run EXCEPT
                             !.progressLog = Append(@, [idx |-> run.idx, value |-> progressPercent]),
                             !.events = Append(@, [idx |-> run.idx, percent |-> progressPercent,
                                                   start |-> run.start, end |-> run.end,
                                                   total |-> run.totalPages,
                                                   pages |-> Len(run.outputPdf)]),
                             !.start = NextStart(run.start, chunkSize)],
                          [UI EXCEPT !.progress = progressPercent,
                                     !.status = Status("merging", "", run.start + 1, run.end,
                                                       run.totalPages)]))

\* const pdfBytes = await outputPdf.save(); saveAs(...); idx++
save ==
  \E r \in DOMAIN runs :
  /\ runs[r].pc = "save"
  /\ \E serialized \in BOOLEAN :
       LET run == runs[r]
       IN Apply(r, IF serialized
                     THEN ForDocument([run EXCEPT
                                         !.outputPdf = Save(run.outputPdf),
                                         !.delivered = Append(@, [idx |-> run.idx,
                                                                  name |-> MergedName(run.mainFiles[run.idx + 1].name),
                                                                  pages |-> Save(run.outputPdf)]),
                                         !.idx = run.idx + 1], UI)
                     ELSE Catch(run, UI))

\* ------------------------------------------------------------ specification

InitUI ==
  /\ mainFiles = <<>>
  /\ insertFile = NULL
  /\ loading = FALSE
  /\ status = Msg("")
  /\ progress = 0
  /\ fetchDone = FALSE
  /\ runs = <<>>

\* The component as mounted.
Init ==
  /\ InitUI
  /\ chunkSize = CHUNK_SIZE
  /\ disk = SpecDisk

\* The loop of processAll with its CHUNK_SIZE as a parameter.
InitBatch ==
  /\ InitUI
  /\ chunkSize \in (1..MaxChunk) \cup {CHUNK_SIZE}
  /\ disk \in BatchDisks

Next ==
  \/ loadDefaultInsert
  \/ handleMainFilesChange
  \/ onDrop
  \/ removeFile
  \/ processAll
  \/ loadInsert
  \/ loadMain
  \/ copyMain
  \/ copyInsert
  \/ afterPause
  \/ save

Spec == Init /\ [][Next]_vars

SpecBatch == InitBatch /\ [][Next]_vars

\* The steps of a call of processAll after its first await: the promises of
\* pdf-lib settle and the timer fires.
RunStep == loadInsert \/ loadMain \/ copyMain \/ copyInsert \/ afterPause \/ save

FairSpec == Spec /\ WF_vars(RunStep)

\* ------------------------------------------------------------------ claims

\* The main file a run is working on.
MainFileOf(run) == run.mainFiles[run.idx + 1]

\* The unbatched merge: page by page, each main page followed by the filler
\* page resized to it.
RECURSIVE Unbatched(_, _)
Unbatched(main, filler) ==
  IF main = <<>> THEN <<>>
  ELSE <<Head(main), [filler EXCEPT !.width = Head(main).width,
                                    !.height = Head(main).height]>>
       \o Unbatched(Tail(main), filler)

C1_WitnessEmpty ==
  \E r \in DOMAIN runs :
    /\ runs[r].pc = "save"
    /\ Len(runs[r].insertPdf) = 1
    /\ Load(MainFileOf(runs[r])) = <<>>
    /\ runs[r].outputPdf = <<>>

\* C5: for every batch size, the output of the batched loop is the output
\* of the unbatched page-by-page merge, page for page and size for size.
C5_BatchIndependent ==
  \A r \in DOMAIN runs :
    LET run == runs[r] IN
    (run.pc = "save" /\ Len(run.insertPdf) >= 1) =>
      run.outputPdf = Unbatched(Load(MainFileOf(run)), run.insertPdf[1])

\* A document that took more than one batch, the last one shorter.
C5_Witness ==
  \E r \in DOMAIN runs :
    /\ runs[r].pc = "save"
    /\ Len(runs[r].events) >= 2
    /\ runs[r].totalPages % chunkSize # 0
    /\ Len(runs[r].outputPdf) = 2 * runs[r].totalPages

\* C8: every filler copy of the output has the width and height of the main
\* page right before it, and the filler source keeps its pages and sizes.
C8_FillerSized ==
  \A r \in DOMAIN runs :
    LET run == runs[r] IN
    /\ \A k \in DOMAIN run.outputPdf :
         run.outputPdf[k].src = "insert" =>
           /\ k > 1
           /\ run.outputPdf[k - 1].src = "main"
           /\ run.outputPdf[k].width = run.outputPdf[k - 1].width
           /\ run.outputPdf[k].height = run.outputPdf[k - 1].height
    /\ run.insertPdf # <<>> => run.insertPdf = Load(run.insertFile)

\* Two filler copies of different sizes, neither the filler's own size.
C8_Witness ==
  \E r \in DOMAIN runs :
    LET out == runs[r].outputPdf IN
    /\ Len(out) >= 4
    /\ out[2].src = "insert" /\ out[4].src = "insert"
    /\ out[2].width # out[4].width
    /\ out[2].width # InsertSizeOf(0)[1] /\ out[4].width # InsertSizeOf(0)[1]

\* The progress updates a run made for its document k, in order.
EventsOf(run, k) == SelectSeq(run.events, LAMBDA e : e.idx = k)

\* The number of ranges of the batch plan that end at or before page n.
RangesBefore(n, chunk) == (n + chunk - 1) \div chunk

\* What C9 says of the updates whatever their place among the pauses: the
\* n-th update of a document of P pages reports position min(n * B, P) of
\* P, and is made when the output holds the 2 * end pages of the ranges so
\* far (after the last filler copy of its range, before any page of the
\* next); a finished document has ceil(P / B) updates.
C9_Events(run) ==
  LET evs == EventsOf(run, run.idx) IN
  /\ \A n \in DOMAIN evs :
       /\ evs[n].end = Min(n * chunkSize, evs[n].total)
       /\ evs[n].start = (n - 1) * chunkSize
       /\ evs[n].total = Len(Load(MainFileOf(run)))
       /\ evs[n].pages = 2 * evs[n].end
  /\ run.pc = "save" =>
       Len(evs) = RangesBefore(Len(Load(MainFileOf(run))), chunkSize)
  /\ run.pc \in {"copyMain", "copyInsert"} =>
       /\ Len(evs) = RangesBefore(run.start, chunkSize)
       /\ Len(run.outputPdf) >= 2 * run.start

\* C9 as amended: one progress update per range, ceil(P / B) in all, at
\* positions min(B, P), min(2B, P), ..., P in that order, each made after the
\* last filler copy of its range and before any page of the next range is
\* copied; the update of a range is made when the pause of that range ends,
\* not before it.
C9_EventPerRange ==
  \A r \in DOMAIN runs :
    LET run == runs[r] IN
    /\ C9_Events(run)
    /\ run.pc = "pause" =>
         Len(EventsOf(run, run.idx)) = RangesBefore(run.start, chunkSize)

\* P = 3, B = 2: two updates, at positions 2 and 3 of 3.
C9_Witness ==
  \E r \in DOMAIN runs :
    LET evs == EventsOf(runs[r], runs[r].idx) IN
    /\ runs[r].pc = "save"
    /\ chunkSize = 2
    /\ Len(evs) = 2
    /\ evs[1].end = 2 /\ evs[1].total = 3
    /\ evs[2].end = 3 /\ evs[2].total = 3

\* C9 as claimed: ..., each update made before the pause of its range: while
\* the call waits for the timer, the update of the range is already made.
C9_Original ==
  \A r \in DOMAIN runs :
    LET run == runs[r] IN
    /\ C9_Events(run)
    /\ run.pc = "pause" =>
         Len(EventsOf(run, run.idx)) = RangesBefore(run.end, chunkSize)

\* The indexes 0 .. n-1 in order.
UpTo(n) == [k \in 1..n |-> k - 1]

\* C2 as claimed: a failure on one main document does not abort the run; a
\* run reaches its end only after every one of its N main documents has been
\* attempted exactly once.
C2_AllAttempted ==
  \A r \in DOMAIN runs :
    runs[r].pc = "done" /\ runs[r].insertFile.ok =>
      runs[r].attempted = UpTo(Len(runs[r].mainFiles))

\* C3 as claimed: a run whose filler does not resolve to exactly one page
\* ends before any main document is loaded, any page is copied, anything is
\* serialized or delivered.
C3_FillerChecked ==
  \A r \in DOMAIN runs :
    LET run == runs[r] IN
    (~run.insertFile.ok \/ run.insertFile.n # 1) =>
      /\ run.attempted = <<>>
      /\ run.outputPdf = <<>>
      /\ run.delivered = <<>>

\* The pages of serialized bytes without the default page of save().
Content(pages) == SelectSeq(pages, LAMBDA pg : pg.src # "blank")

\* C4: saveAs is called once per main document whose merge and
\* serialization completed, in input order, as "merged-<name>", with the
\* complete output of that document (all its batches); a document that
\* failed in a copy or in save() is not delivered, in part or in whole.
C4_Delivered ==
  \A r \in DOMAIN runs :
    LET run == runs[r] IN
    /\ \A j \in DOMAIN run.delivered :
         /\ run.delivered[j].idx = j - 1
         /\ run.delivered[j].name = "merged-" \o run.mainFiles[j].name
         /\ Load(run.mainFiles[j]) # <<>> => run.insertFile.n >= 1
         /\ Content(run.delivered[j].pages)
              = IF Load(run.mainFiles[j]) = <<>> THEN <<>>
                ELSE Unbatched(Load(run.mainFiles[j]), Load(run.insertFile)[1])
    /\ Len(run.delivered) = run.idx
    /\ run.failed => Len(run.delivered) < Len(run.mainFiles)
    /\ run.pc = "done" /\ ~run.failed => Len(run.delivered) = Len(run.mainFiles)

\* A first document delivered, a second one failed with its output built
\* in part.
C4_Witness ==
  \E r \in DOMAIN runs :
    /\ runs[r].failed
    /\ runs[r].partial
    /\ Len(runs[r].delivered) = 1
    /\ runs[r].idx = 1

\* C6 as claimed: the values a run gives setProgress never decrease from
\* one to the next, over all its main documents, and a run that succeeds
\* gives 100 last.
C6_Original ==
  \A r \in DOMAIN runs :
    LET log == runs[r].progressLog IN
    /\ \A n \in 2..Len(log) : log[n - 1].value <= log[n].value
    /\ runs[r].pc = "done" /\ ~runs[r].failed => log[Len(log)].value = 100

\* C6 as amended: within one main document the values a run gives
\* setProgress never decrease (a value lower than the one before it is the
\* first value of a later document), and a run that succeeds gives 100 last.
C6_MonotonePerDocument ==
  \A r \in DOMAIN runs :
    LET log == runs[r].progressLog IN
    /\ \A n \in 2..Len(log) :
         log[n].value < log[n - 1].value => log[n].idx > log[n - 1].idx
    /\ \A n \in DOMAIN log : log[n].value \in 0..100
    /\ runs[r].pc = "done" /\ ~runs[r].failed => log[Len(log)].value = 100

\* A run that succeeded and whose progress went down between two documents.
C6_Witness ==
  \E r \in DOMAIN runs :
    LET log == runs[r].progressLog IN
    /\ runs[r].pc = "done" /\ ~runs[r].failed
    /\ \E n \in 2..Len(log) : log[n].value < log[n - 1].value
    /\ \E n \in 2..Len(log) :
         log[n].idx = log[n - 1].idx /\ log[n].value > log[n - 1].value
                                     /\ log[n - 1].value > 0

\* C7: at most one call of processAll is in progress, and while one is the
\* button is disabled; in a call, a document is loaded only after every
\* document before it has been serialized and delivered, a batch starts only
\* when the batches before it are complete in the output, and a main page is
\* appended only after the page before it and its filler copy.
C7_Sequential ==
  /\ Cardinality({r \in DOMAIN runs : Active(runs[r])}) <= 1
  /\ (\E r \in DOMAIN runs : Active(runs[r])) => ~ButtonEnabled
  /\ \A r \in DOMAIN runs :
       LET run == runs[r] IN
       /\ run.attempted = UpTo(Len(run.attempted))
       /\ run.pc = "loadMain" =>
            Len(run.attempted) = run.idx /\ Len(run.delivered) = run.idx
       /\ run.pc \in {"copyMain", "copyInsert", "pause", "save"} =>
            /\ Len(run.attempted) = run.idx + 1
            /\ Len(run.delivered) = run.idx
            /\ \A k \in DOMAIN run.outputPdf :
                 IF k % 2 = 1
                   THEN run.outputPdf[k].src = "main"
                        /\ run.outputPdf[k].index = (k - 1) \div 2
                   ELSE run.outputPdf[k].src = "insert"
       /\ run.pc = "copyMain" => Len(run.outputPdf) = 2 * run.start
       /\ run.pc = "copyInsert" => Len(run.outputPdf) = 2 * (run.start + run.i) + 1
       /\ run.pc = "pause" => Len(run.outputPdf) = 2 * run.end

\* The second batch of the second document of a run.
C7_Witness ==
  \E r \in DOMAIN runs :
    /\ runs[r].pc = "copyInsert"
    /\ runs[r].idx = 1
    /\ runs[r].start > 0
    /\ loading

\* Some call of processAll is between its first await and its end.
Running == \E r \in DOMAIN runs : Active(runs[r])

\* C10, the states: loading is true exactly while a call that passed the
\* checks is in progress, and the success status is never that of a call
\* that failed.
C10_States ==
  /\ loading <=> Running
  /\ \A r \in DOMAIN runs : runs[r].failed => status.kind # "success"
  /\ status.kind = "success" =>
       \E r \in DOMAIN runs :
         /\ runs[r].pc = "done" /\ ~runs[r].failed
         /\ Len(runs[r].delivered) = Len(runs[r].mainFiles)

\* C10, the steps: where a check of processAll fails (no insert file, or no
\* main file), no step sets loading to true or starts a call.
C10_Steps ==
  (~loading /\ (insertFile = NULL \/ Len(mainFiles) = 0)) =>
    (~loading' /\ runs' = runs)

\* C10: loading is true exactly while a call of processAll that passed the
\* checks is in progress, a call that fails a check never sets it, it is set
\* back to false when the call ends, by success or by a caught failure, and
\* the success status is set only by a call without failure.
C10_Loading ==
  /\ []C10_States
  /\ [][C10_Steps]_vars
  /\ (loading ~> ~loading)

\* A call that failed while loading was true, and has set it back.
C10_Witness ==
  /\ ~loading
  /\ \E r \in DOMAIN runs :
       /\ runs[r].failed
       /\ runs[r].attempted # <<>>
  /\ status.kind = "error"

====
